---- MODULE Spec2Model ----
(***************************************************************************)
(* The analyze-content edge function (src/unnamed/part_002): the request   *)
(* handler and the five analyzers it calls.  A content string is a         *)
(* sequence of one-character strings; the regular expressions of the       *)
(* source are written as syntax trees and run by a backtracking matcher.   *)
(***************************************************************************)
EXTENDS Integers, Sequences, FiniteSets, TLC

(***************************************************************************)
(* Characters                                                              *)
(***************************************************************************)
Digits == {"0", "1", "2", "3", "4", "5", "6", "7", "8", "9"}

LowerLetters ==
  {"a", "b", "c", "d", "e", "f", "g", "h", "i", "j", "k", "l", "m",
   "n", "o", "p", "q", "r", "s", "t", "u", "v", "w", "x", "y", "z"}

\* String.prototype.toLowerCase on one character (ASCII letters).
UpperToLower ==
  ("A" :> "a") @@ ("B" :> "b") @@ ("C" :> "c") @@ ("D" :> "d") @@
  ("E" :> "e") @@ ("F" :> "f") @@ ("G" :> "g") @@ ("H" :> "h") @@
  ("I" :> "i") @@ ("J" :> "j") @@ ("K" :> "k") @@ ("L" :> "l") @@
  ("M" :> "m") @@ ("N" :> "n") @@ ("O" :> "o") @@ ("P" :> "p") @@
  ("Q" :> "q") @@ ("R" :> "r") @@ ("S" :> "s") @@ ("T" :> "t") @@
  ("U" :> "u") @@ ("V" :> "v") @@ ("W" :> "w") @@ ("X" :> "x") @@
  ("Y" :> "y") @@ ("Z" :> "z")

UpperLetters == DOMAIN UpperToLower

ToLower(ch) == IF ch \in UpperLetters THEN UpperToLower[ch] ELSE ch

\* content.toLowerCase()
toLowerCase(s) == [i \in 1..Len(s) |-> ToLower(s[i])]

\* The regular-expression classes \w, \d, \s and the line terminators that
\* "." refuses and "^" (flag m) follows.
WordChars == LowerLetters \cup UpperLetters \cup Digits \cup {"_"}
SpaceChars == {" ", "\n", "\t", "\r"}
LineTerminators == {"\n", "\r"}

IsWordChar(s, i) == i >= 1 /\ i <= Len(s) /\ s[i] \in WordChars

(***************************************************************************)
(* Regular expressions.  A pattern is a tree of records; Match(r, s, i,    *)
(* ci) is the sequence of positions at which a match of r that starts at   *)
(* position i of s can end, in the order in which a backtracking matcher   *)
(* tries them (position i is "before character i", so an end e stands for  *)
(* the matched text s[i..e-1]).  ci is the flag i.  Quantifiers apply to   *)
(* one-character patterns, which is all the source uses.                   *)
(***************************************************************************)
Chr(c) == [t |-> "chr", c |-> c]
Cls(S) == [t |-> "cls", cs |-> S]
AnyChar == [t |-> "any"]
WordB == [t |-> "wb"]
Bol == [t |-> "bol"]
Cat(rs) == [t |-> "cat", rs |-> rs]
Alt(rs) == [t |-> "alt", rs |-> rs]
Rep(r, min, greedy) == [t |-> "rep", r |-> r, min |-> min, greedy |-> greedy]
Star(r) == Rep(r, 0, TRUE)
Plus(r) == Rep(r, 1, TRUE)
LazyStar(r) == Rep(r, 0, FALSE)
Opt(r) == Alt(<<r, Cat(<<>>)>>)
Lit(cs) == Cat([k \in 1..Len(cs) |-> Chr(cs[k])])

\* Whether the one-character pattern r accepts character ch.
One(r, ch, ci) ==
  CASE r.t = "chr" -> IF ci THEN ToLower(ch) = ToLower(r.c) ELSE ch = r.c
    [] r.t = "cls" -> ch \in r.cs
    [] r.t = "any" -> ch \notin LineTerminators

\* The first position from i on whose character r does not accept.
RunEnd(r, s, i, ci) ==
  CHOOSE j \in i..(Len(s) + 1) :
    /\ (j = Len(s) + 1 \/ ~One(r, s[j], ci))
    /\ \A m \in i..(j - 1) : One(r, s[m], ci)

RECURSIVE Flat(_, _, _)
\* ss[lo] \o ... \o ss[hi]
Flat(ss, lo, hi) ==
  IF lo > hi THEN <<>>
  ELSE IF lo = hi THEN ss[lo]
  ELSE LET mid == (lo + hi) \div 2
       IN Flat(ss, lo, mid) \o Flat(ss, mid + 1, hi)

RECURSIVE Match(_, _, _, _)
RECURSIVE MatchCat(_, _, _, _, _)
Match(r, s, i, ci) ==
  CASE r.t \in {"chr", "cls", "any"} ->
         IF i <= Len(s) /\ One(r, s[i], ci) THEN <<i + 1>> ELSE <<>>
    [] r.t = "wb" ->
         IF IsWordChar(s, i - 1) # IsWordChar(s, i) THEN <<i>> ELSE <<>>
    [] r.t = "bol" ->
         IF i = 1 \/ s[i - 1] \in LineTerminators THEN <<i>> ELSE <<>>
    [] r.t = "rep" ->
         LET stop == RunEnd(r.r, s, i, ci)
             m == stop - (i + r.min) + 1
         IN IF m < 1 THEN <<>>
            ELSE IF r.greedy THEN [k \in 1..m |-> stop - k + 1]
            ELSE [k \in 1..m |-> i + r.min + k - 1]
    [] r.t = "cat" -> MatchCat(r.rs, 1, s, i, ci)
    [] r.t = "alt" ->
         Flat([k \in 1..Len(r.rs) |-> Match(r.rs[k], s, i, ci)], 1, Len(r.rs))

MatchCat(rs, k, s, i, ci) ==
  IF k > Len(rs) THEN <<i>>
  ELSE LET es == Match(rs[k], s, i, ci)
       IN Flat([j \in 1..Len(es) |-> MatchCat(rs, k + 1, s, es[j], ci)],
               1, Len(es))

\* The end of the match the matcher reports at i: the first it finds.
MatchEnd(r, s, i, ci) == Match(r, s, i, ci)[1]

\* The positions at which some match starts.
MatchStarts(r, s, ci) ==
  {i \in 1..(Len(s) + 1) : Match(r, s, i, ci) # <<>>}

\* RegExp.prototype.test
Test(r, s, ci) == \E i \in 1..(Len(s) + 1) : Match(r, s, i, ci) # <<>>

SetMin(S) == CHOOSE x \in S : \A y \in S : x <= y

\* Where the scan goes on after the match from i to e: an empty match
\* advances lastIndex by one.
Resume(i, e) == IF e = i THEN i + 1 ELSE e

RECURSIVE ScanCount(_, _, _, _)
\* (s.match(r with flag g) || []).length: the leftmost match, then the
\* leftmost match from its end on, and so on.  cand is the set of the
\* positions not yet passed at which a match starts.
ScanCount(r, s, cand, ci) ==
  IF cand = {} THEN 0
  ELSE 1 + ScanCount(r, s,
                     {c \in cand :
                        c >= Resume(SetMin(cand),
                                    MatchEnd(r, s, SetMin(cand), ci))},
                     ci)

MatchCount(r, s, ci) == ScanCount(r, s, MatchStarts(r, s, ci), ci)

\* The characters of a string literal.
Chars(str) == [i \in 1..Len(str) |-> SubSeq(str, i, i)]
Str(str) == Lit(Chars(str))

(***************************************************************************)
(* String.prototype.split(r) for the separators the source uses, each a    *)
(* repeated one-character pattern ([.!?]+, \s+, and \n\n+ written \n{2,}): *)
(* a separator is a maximal run, so it starts where a match starts and the *)
(* character before is not of the run.                                     *)
(***************************************************************************)
SeparatorStarts(r, s) ==
  {i \in 1..Len(s) :
     /\ Match(r, s, i, FALSE) # <<>>
     /\ (i = 1 \/ ~One(r.r, s[i - 1], FALSE))}

\* s.split(r).length
SplitLength(r, s) == Cardinality(SeparatorStarts(r, s)) + 1

\* The pieces <<from, to>> of s (the piece is s[from..to], empty when
\* to = from - 1), in order, for seps the starts of the separators and
\* froms the starts of the pieces.
Pieces(s, seps, froms) ==
  LET to(p) == SetMin({i \in seps : i >= p} \cup {Len(s) + 1}) - 1
      nth(k) == CHOOSE p \in froms : Cardinality({q \in froms : q < p}) = k - 1
  IN [k \in 1..Cardinality(froms) |-> <<nth(k), to(nth(k))>>]

\* s.split(r)
Split(r, s) ==
  Pieces(s, SeparatorStarts(r, s),
         {1} \cup {MatchEnd(r, s, i, FALSE) : i \in SeparatorStarts(r, s)})

\* s.trim().length > 0 for the piece seg of s
NonBlank(s, seg) == \E i \in seg[1]..seg[2] : s[i] \notin SpaceChars

(***************************************************************************)
(* Numbers.  The source divides counts by counts; the quotient is a        *)
(* fraction n/d, NaN (0/0), Infinity (x/0), or, for Math.sqrt, the square  *)
(* root of a fraction.  Comparisons with NaN are false.                    *)
(***************************************************************************)
Fin(n, d) == [k |-> "fin", n |-> n, d |-> d]
NaN == [k |-> "nan", n |-> 0, d |-> 1]
PosInf == [k |-> "inf", n |-> 1, d |-> 1]
NegInf == [k |-> "ninf", n |-> 1, d |-> 1]
Root(n, d) == [k |-> "sqrt", n |-> n, d |-> d]

\* a / b for counts a, b >= 0
JsDiv(a, b) ==
  IF b # 0 THEN Fin(a, b) ELSE IF a = 0 THEN NaN ELSE PosInf

\* x * c for an integer c > 0
JsTimes(x, c) == IF x.k = "fin" THEN Fin(x.n * c, x.d) ELSE x

\* x < p/q and x > p/q, for p >= 0 and q > 0
JsLess(x, p, q) ==
  CASE x.k = "fin" -> x.n * q < p * x.d
    [] x.k = "sqrt" -> x.n * q * q < p * p * x.d
    [] x.k = "ninf" -> TRUE
    [] OTHER -> FALSE

\* JsGreater with the comparison turned: x <= p / q.
JsNotGreater(x, p, q) ==
  CASE x.k = "fin" -> x.n * q <= p * x.d
    [] x.k = "sqrt" -> x.n * q * q <= p * p * x.d
    [] x.k = "ninf" -> TRUE
    [] OTHER -> FALSE

JsGreater(x, p, q) ==
  CASE x.k = "fin" -> x.n * q > p * x.d
    [] x.k = "sqrt" -> x.n * q * q > p * p * x.d
    [] x.k = "inf" -> TRUE
    [] OTHER -> FALSE

\* Math.sqrt
JsSqrt(x) ==
  CASE x.k = "fin" -> IF x.n < 0 THEN NaN ELSE Root(x.n, x.d)
    [] x.k = "inf" -> PosInf
    [] OTHER -> NaN

Abs(n) == IF n < 0 THEN 0 - n ELSE n
Pow10(f) == IF f = 0 THEN 1 ELSE IF f = 1 THEN 10 ELSE 100

\* The integer nearest to |x| * 10^f, the larger one on a tie.
Scaled(x, f) ==
  IF x.k = "fin"
  THEN (2 * Abs(x.n) * Pow10(f) + x.d) \div (2 * x.d)
  ELSE CHOOSE m \in 0..(2 * Pow10(f) * (x.n + 1)) :
         /\ (m = 0 \/ (2 * m - 1) * (2 * m - 1) * x.d
                        <= 4 * Pow10(f) * Pow10(f) * x.n)
         /\ 4 * Pow10(f) * Pow10(f) * x.n < (2 * m + 1) * (2 * m + 1) * x.d

\* Number.prototype.toFixed(f), f in 0..2
toFixed(x, f) ==
  CASE x.k = "nan" -> "NaN"
    [] x.k = "inf" -> "Infinity"
    [] x.k = "ninf" -> "-Infinity"
    [] OTHER ->
         LET m == Scaled(x, f)
             int == m \div Pow10(f)
             frac == m % Pow10(f)
         IN (IF x.k = "fin" /\ x.n < 0 THEN "-" ELSE "")
            \o ToString(int)
            \o (IF f = 0 THEN ""
                ELSE "." \o (IF f = 2 /\ frac < 10 THEN "0" ELSE "")
                         \o ToString(frac))

Max(a, b) == IF a >= b THEN a ELSE b
Min(a, b) == IF a <= b THEN a ELSE b

\* Slice without the cut: the whole array.
Whole(seq, n) == seq

\* Array.prototype.slice(0, n)
Slice(seq, n) == SubSeq(seq, 1, Min(n, Len(seq)))

(***************************************************************************)
(* The shape every analyzer shares: score starts at 100; each failed check *)
(* subtracts its penalty and pushes one issue and one recommendation.  A   *)
(* check is [failed, penalty, issue, rec]; checks are in source order.     *)
(***************************************************************************)
\* Check with every penalty 5 higher.
CheckHeavy(failed, penalty, issue, rec) ==
  [failed |-> failed, penalty |-> penalty + 5, issue |-> issue, rec |-> rec]

Check(failed, penalty, issue, rec) ==
  [failed |-> failed, penalty |-> penalty, issue |-> issue, rec |-> rec]

Failed(checks) == SelectSeq(checks, LAMBDA c : c.failed)

RECURSIVE PenaltiesTwice(_, _)
\* Penalties with every penalty doubled.
PenaltiesTwice(checks, k) ==
  IF k > Len(checks) THEN 0
  ELSE (IF checks[k].failed THEN 2 * checks[k].penalty ELSE 0)
       + PenaltiesTwice(checks, k + 1)

RECURSIVE Penalties(_, _)
Penalties(checks, k) ==
  IF k > Len(checks) THEN 0
  ELSE (IF checks[k].failed THEN checks[k].penalty ELSE 0)
       + Penalties(checks, k + 1)

\* ScoreAfter with the sign of the penalties turned: score += penalty.
ScoreRaised(checks) == 100 + Penalties(checks, 1)

\* score after the checks
ScoreAfter(checks) == 100 - Penalties(checks, 1)
\* Issues with the conditions turned: the issue of each check that passed.
IssuesOfPassed(checks) ==
  [k \in 1..Len(SelectSeq(checks, LAMBDA c : ~c.failed)) |->
     SelectSeq(checks, LAMBDA c : ~c.failed)[k].issue]

Issues(checks) == [k \in 1..Len(Failed(checks)) |-> Failed(checks)[k].issue]
\* Recommendations in the opposite order.
RecommendationsReversed(checks) ==
  [k \in 1..Len(Failed(checks)) |->
     Failed(checks)[Len(Failed(checks)) + 1 - k].rec]

Recommendations(checks) ==
  [k \in 1..Len(Failed(checks)) |-> Failed(checks)[k].rec]

(***************************************************************************)
(* calculateSEOScore                                                       *)
(***************************************************************************)
\* /\b\w+\b/g
reWord == Cat(<<WordB, Plus(Cls(WordChars)), WordB>>)
\* /[.!?]+/
reSentenceEnd == Plus(Cls({".", "!", "?"}))
\* /\s+/
reSpaces == Plus(Cls(SpaceChars))
\* /^#\s/gm and /^##\s/gm
reH1 == Cat(<<Bol, Chr("#"), Cls(SpaceChars)>>)
reH2 == Cat(<<Bol, Chr("#"), Chr("#"), Cls(SpaceChars)>>)
\* /\[.*?\]\(.*?\)/g
reLink ==
  Cat(<<Chr("["), LazyStar(AnyChar), Chr("]"),
        Chr("("), LazyStar(AnyChar), Chr(")")>>)

\* content.toLowerCase().match(/\b\w+\b/g) || [], as the set of the
\* positions at which a word starts: a match is a whole maximal run of word
\* characters, so no match starts inside another and each start is a match.
WordStarts(lc) == MatchStarts(reWord, lc, FALSE)
WordAt(lc, i) == SubSeq(lc, i, MatchEnd(reWord, lc, i, FALSE) - 1)
\* The words, each at the position of its start.
Words(lc) == [i \in WordStarts(lc) |-> WordAt(lc, i)]

\* content.split(/[.!?]+/).filter((s) => s.trim().length > 0)
Sentences(s) ==
  SelectSeq(Split(reSentenceEnd, s), LAMBDA seg : NonBlank(s, seg))

\* sortedWords[0] as [word, count], for long the words longer than 4 (not
\* empty): the stable sort by falling count keeps, among the words of the
\* highest count, the one inserted first.
TopWord(long) ==
  LET wordFreq == [w \in {long[i] : i \in DOMAIN long} |->
                     Cardinality({i \in DOMAIN long : long[i] = w})]
      first(w) == SetMin({i \in DOMAIN long : long[i] = w})
  IN [word |-> CHOOSE w \in DOMAIN wordFreq :
                 \A v \in DOMAIN wordFreq :
                   \/ wordFreq[v] < wordFreq[w]
                   \/ (wordFreq[v] = wordFreq[w] /\ first(w) <= first(v)),
      count |-> wordFreq]

\* sortedWords[0][0] and wordFreq[primaryKeyword]
Counted(top) ==
  [word |-> top.word, count |-> top.count[top.word], numeric |-> TRUE]

\* wordFreq is a plain object, so wordFreq["constructor"] reads
\* Object.prototype.constructor before the word is counted: a function,
\* which is truthy, and (function || 0) + 1 is a string.  The count of
\* that word is a string ever after.
InheritedKeys == {Chars("constructor")}

\* The value sortedWords[0] has when one of the counts is a string beside
\* others: b[1] - a[1] is NaN then, the comparator is not consistent, and
\* the order Array.prototype.sort leaves is the engine's own.  No value is
\* given to it here.
EngineOrder == CHOOSE top \in {} : TRUE

\* primaryKeyword and keywordCount as [word, count]; numeric tells whether
\* the count is a number.
Keyword(long) ==
  IF DOMAIN long = {}
  THEN [word |-> Chars("content"), count |-> 0, numeric |-> TRUE]
  ELSE IF {long[i] : i \in DOMAIN long} \cap InheritedKeys = {}
  THEN Counted(TopWord(long))
  ELSE IF Cardinality({long[i] : i \in DOMAIN long}) = 1
  THEN [word |-> long[SetMin(DOMAIN long)], count |-> 0, numeric |-> FALSE]
  ELSE EngineOrder

\* 206.835 - 1.015 * avgWordsPerSentence
Readability(avgWordsPerSentence) ==
  CASE avgWordsPerSentence.k = "fin" ->
         Fin(206835 * avgWordsPerSentence.d - 1015 * avgWordsPerSentence.n,
             1000 * avgWordsPerSentence.d)
    [] avgWordsPerSentence.k = "inf" -> NegInf
    [] OTHER -> NaN

SEOChecks(m) ==
  << Check(JsLess(m.keywordDensity, 1, 1) \/ JsGreater(m.keywordDensity, 5, 2),
           15,
           "Keyword density: " \o toFixed(m.keywordDensity, 2)
             \o "% (Optimal: 1-2%)",
           "Adjust keyword density to 1-2% for better SEO"),
     Check(JsLess(m.readabilityScore, 60, 1),
           10,
           "Readability score: " \o toFixed(m.readabilityScore, 0) \o " (Low)",
           "Simplify sentences for better readability"),
     Check(m.h1Count = 0,
           15,
           "Missing H1 header",
           "Add a clear H1 header with your primary keyword"),
     Check(m.h2Count < 2,
           10,
           "Insufficient H2 headers",
           "Add more H2 headers to structure your content"),
     Check(m.wordsLength < 300,
           20,
           "Content too short: " \o ToString(m.wordsLength)
             \o " words (Min: 300)",
           "Expand content to at least 300 words"),
     Check(m.linkCount < 2,
           10,
           "Few or no links detected",
           "Add relevant internal and external links") >>

SEOMetrics(m) ==
  [keywordDensity |-> toFixed(m.keywordDensity, 2) \o "%",
   readabilityScore |-> toFixed(m.readabilityScore, 0),
   wordCount |-> m.wordsLength,
   primaryKeyword |-> m.primaryKeyword]

\* The return statement: the score floored at 0, every issue, the first
\* five recommendations, and the metrics.
SEOResult(checks, metrics) ==
  [score |-> Max(0, ScoreAfter(checks)),
   issues |-> Issues(checks),
   recommendations |-> Slice(Recommendations(checks), 5),
   metrics |-> metrics]

\* The words longer than 4, each at the position of its start.
LongWords(words) ==
  [i \in {j \in DOMAIN words : Len(words[j]) > 4} |-> words[i]]

\* What the function measures of the content c, of wordsLength words.
SEOMeasured(c, wordsLength, keyword) ==
  [keywordDensity |->
     IF keyword.numeric THEN JsTimes(JsDiv(keyword.count, wordsLength), 100)
     ELSE NaN,
   readabilityScore |-> Readability(JsDiv(wordsLength, Len(Sentences(c)))),
   h1Count |-> MatchCount(reH1, c, FALSE),
   h2Count |-> MatchCount(reH2, c, FALSE),
   wordsLength |-> wordsLength,
   linkCount |-> MatchCount(reLink, c, FALSE),
   primaryKeyword |-> keyword.word]

SEOOfWords(c, words) ==
  SEOMeasured(c, Cardinality(DOMAIN words), Keyword(LongWords(words)))

SEOMeasure(c) == SEOOfWords(c, Words(toLowerCase(c)))

SEOScored(m) == SEOResult(SEOChecks(m), SEOMetrics(m))

calculateSEOScore(c) == SEOScored(SEOMeasure(c))

(***************************************************************************)
(* calculateSERPScore.  reply is what the fetch and the reading of its     *)
(* body came to: kind "ok" with the text of choices[0].message.content, or *)
(* one of the failures, each of which throws inside the try block.         *)
(***************************************************************************)
\* /\d+%|\d+\s*(percent|times|years?|months?)/
reNumbers ==
  Alt(<<Cat(<<Plus(Cls(Digits)), Chr("%")>>),
        Cat(<<Plus(Cls(Digits)), Star(Cls(SpaceChars)),
              Alt(<<Str("percent"), Str("times"),
                    Cat(<<Str("year"), Opt(Chr("s"))>>),
                    Cat(<<Str("month"), Opt(Chr("s"))>>)>>)>>)>>)
\* /according to|research shows|study found|expert/i
reCitations ==
  Alt(<<Str("according to"), Str("research shows"), Str("study found"),
        Str("expert")>>)

\* analysis.substring(0, 100)
Substring100(analysis) == SubSeq(analysis, 1, Min(100, Len(analysis)))

\* SERPFallback with a score no lower than the least of the success path.
SERPFallbackLevel ==
  [score |-> 55,
   issues |-> <<"Unable to perform full SERP analysis">>,
   recommendations |-> <<"Ensure content is comprehensive and well-researched">>,
   predictedRank |-> "Unknown"]

SERPFallback ==
  [score |-> 50,
   issues |-> <<"Unable to perform full SERP analysis">>,
   recommendations |-> <<"Ensure content is comprehensive and well-researched">>,
   predictedRank |-> "Unknown"]

SERPChecks(m) ==
  << Check(m.words < 1000,
           20,
           "Word count: " \o ToString(m.words) \o " (Top rankings avg: 1500+)",
           "Expand content to 1500+ words to compete with top SERP results"),
     Check(~m.hasNumbers,
           15,
           "No statistics or data points found",
           "Add concrete statistics and data to support claims"),
     Check(~m.hasCitations,
           10,
           "No expert quotes or research citations",
           "Include expert opinions and research citations") >>

\* SERPResult without the issue and the recommendation of the AI analysis.
SERPResultLocal(checks, m, analysis) ==
  [score |-> Max(0, ScoreAfter(checks)),
   issues |-> Issues(checks),
   recommendations |-> Slice(Recommendations(checks), 5),
   predictedRank |-> IF m.words > 1500 THEN "Page 1 potential" ELSE "Page 2-3"]

\* SERPResult with the upper label from 1500 words on.
SERPResultInclusive(checks, m, analysis) ==
  [score |-> Max(0, ScoreAfter(checks)),
   issues |-> Append(Issues(checks),
                     "AI analysis: " \o Substring100(analysis)),
   recommendations |->
     Slice(Append(Recommendations(checks),
                  "Review AI-generated insights for detailed SERP optimization"),
           5),
   predictedRank |-> IF m.words >= 1500 THEN "Page 1 potential" ELSE "Page 2-3"]

\* The return statement of the try block, after the issue and the
\* recommendation of the AI analysis were pushed.
SERPResult(checks, m, analysis) ==
  [score |-> Max(0, ScoreAfter(checks)),
   issues |-> Append(Issues(checks),
                     "AI analysis: " \o Substring100(analysis)),
   recommendations |->
     Slice(Append(Recommendations(checks),
                  "Review AI-generated insights for detailed SERP optimization"),
           5),
   predictedRank |-> IF m.words > 1500 THEN "Page 1 potential" ELSE "Page 2-3"]

\* What the function measures of the content c.
SERPMeasure(c) ==
  [words |-> SplitLength(reSpaces, c),
   hasNumbers |-> Test(reNumbers, c, FALSE),
   hasCitations |-> Test(reCitations, c, TRUE)]

SERPScored(m, analysis) == SERPResult(SERPChecks(m), m, analysis)

SERPSuccess(c, analysis) == SERPScored(SERPMeasure(c), analysis)

\* calculateSERPScore without the throw on a failed call and without the
\* catch: the body of the failure is analysed as a success.
SERPUnguarded(c, reply) == SERPSuccess(c, reply.analysis)

calculateSERPScore(c, reply) ==
  IF reply.kind = "ok" THEN SERPSuccess(c, reply.analysis) ELSE SERPFallback

(***************************************************************************)
(* calculateAEOScore                                                       *)
(***************************************************************************)
\* /\bfaq\b|frequently asked|questions?:/i
reFAQ ==
  Alt(<<Cat(<<WordB, Str("faq"), WordB>>),
        Str("frequently asked"),
        Cat(<<Str("question"), Opt(Chr("s")), Chr(":")>>)>>)
\* /^[\-\*\d+\.]\s/gm
reList == Cat(<<Bol, Cls({"-", "*", "+", "."} \cup Digits), Cls(SpaceChars)>>)
\* /\n\n+/
reParagraphBreak == Rep(Chr("\n"), 2, TRUE)
\* /how to|step \d|first,|second,|finally/i
reHowTo ==
  Alt(<<Str("how to"), Cat(<<Str("step "), Cls(Digits)>>), Str("first,"),
        Str("second,"), Str("finally")>>)
\* /is defined as|refers to|means that/i
reDefinitions ==
  Alt(<<Str("is defined as"), Str("refers to"), Str("means that")>>)

\* content.split(/\n\n+/).filter((p) => p.trim().length > 0)
Paragraphs(s) ==
  SelectSeq(Split(reParagraphBreak, s), LAMBDA seg : NonBlank(s, seg))

AEOChecks(m) ==
  << Check(~m.hasFAQ,
           15,
           "No FAQ section detected",
           "Add FAQ section for better AI engine visibility"),
     Check(m.listCount < 3,
           10,
           "Few structured lists",
           "Use bullet points and numbered lists for clarity"),
     Check(JsGreater(m.avgParagraphLength, 500, 1),
           15,
           "Paragraphs too long for AI parsing",
           "Break content into shorter, scannable paragraphs"),
     Check(~m.hasHowTo,
           10,
           "No step-by-step instructions",
           "Add clear step-by-step instructions where applicable"),
     Check(~m.hasDefinitions,
           10,
           "Lacks clear definitions",
           "Include clear definitions of key terms") >>

\* The return statement: the score floored at 0, every issue and the first
\* five recommendations.
AEOResult(checks) ==
  [score |-> Max(0, ScoreAfter(checks)),
   issues |-> Issues(checks),
   recommendations |-> Slice(Recommendations(checks), 5)]

\* What the function measures of the content c.
AEOMeasure(c) ==
  [hasFAQ |-> Test(reFAQ, c, TRUE),
   listCount |-> MatchCount(reList, c, FALSE),
   avgParagraphLength |-> JsDiv(Len(c), Len(Paragraphs(c))),
   hasHowTo |-> Test(reHowTo, c, TRUE),
   hasDefinitions |-> Test(reDefinitions, c, TRUE)]

AEOScored(m) == AEOResult(AEOChecks(m))

calculateAEOScore(c) == AEOScored(AEOMeasure(c))

(***************************************************************************)
(* calculateHumanizationScore                                              *)
(***************************************************************************)
\* /\b(was|were|been|being)\s+\w+ed\b/gi
rePassive ==
  Cat(<<WordB, Alt(<<Str("was"), Str("were"), Str("been"), Str("being")>>),
        Plus(Cls(SpaceChars)), Plus(Cls(WordChars)), Chr("e"), Chr("d"),
        WordB>>)
aiPatterns ==
  << Cat(<<WordB, Str("in conclusion"), WordB>>),
     Cat(<<WordB, Str("it's important to note"), WordB>>),
     Cat(<<WordB, Str("furthermore"), WordB>>),
     Cat(<<WordB, Str("moreover"), WordB>>) >>
\* /\b(I|we|you|us|our|your)\b/gi
rePronouns ==
  Cat(<<WordB, Alt(<<Str("I"), Str("we"), Str("you"), Str("us"), Str("our"),
                     Str("your")>>), WordB>>)

RECURSIVE SumSeq(_, _, _)
\* f[lo] + ... + f[hi]
SumSeq(f, lo, hi) ==
  IF lo > hi THEN 0
  ELSE IF lo = hi THEN f[lo]
  ELSE LET mid == (lo + hi) \div 2
       IN SumSeq(f, lo, mid) + SumSeq(f, mid + 1, hi)

\* s.trim().split(/\s+/)[0]?.toLowerCase() for the non-blank piece seg of s
Starter(s, seg) ==
  LET from == SetMin({i \in seg[1]..seg[2] : s[i] \notin SpaceChars})
      to == SetMin({i \in from..seg[2] : s[i] \in SpaceChars}
                     \cup {seg[2] + 1}) - 1
  IN toLowerCase(SubSeq(s, from, to))

\* sentences.map((s) => s.split(/\s+/).length)
SentenceLengths(c, sentences) ==
  [k \in 1..Len(sentences) |->
     SplitLength(reSpaces, SubSeq(c, sentences[k][1], sentences[k][2]))]

\* Math.sqrt(variance): avgLength = total / n, and the sum of
\* (len - avgLength)^2 over n is (n * squares - total^2) / n^2, which is
\* 0 / 0 for no sentence.
StdDev(sentenceLengths) ==
  LET n == Len(sentenceLengths)
      total == SumSeq(sentenceLengths, 1, n)
      squares == SumSeq([k \in 1..n |-> sentenceLengths[k] * sentenceLengths[k]],
                        1, n)
  IN JsSqrt(IF n = 0 THEN NaN ELSE Fin(n * squares - total * total, n * n))

Starters(c, sentences) ==
  [k \in 1..Len(sentences) |-> Starter(c, sentences[k])]

\* Math.max(...Object.values(starterFreq)): -Infinity of no value, and NaN
\* when a sentence starts with "constructor", whose count is a string as
\* in wordFreq.
MaxRepetition(starters) ==
  LET starterFreq == [w \in {starters[k] : k \in DOMAIN starters} |->
                        Cardinality({k \in DOMAIN starters : starters[k] = w})]
  IN IF starters = <<>> THEN NegInf
     ELSE IF DOMAIN starterFreq \cap InheritedKeys # {} THEN NaN
     ELSE Fin(CHOOSE m \in {starterFreq[w] : w \in DOMAIN starterFreq} :
                \A w \in DOMAIN starterFreq : starterFreq[w] <= m, 1)

HumanizationChecks(m) ==
  << Check(JsLess(m.stdDev, 5, 1),
           20,
           "Low sentence variety (robotic pattern)",
           "Vary sentence lengths for more natural flow"),
     \* m.maxRepetition > sentences.length * 0.2
     Check(JsGreater(m.maxRepetition, m.sentencesLength, 5),
           15,
           "Repetitive sentence starters",
           "Diversify how you begin sentences"),
     Check(JsGreater(m.passivePercentage, 20, 1),
           15,
           "High passive voice: " \o toFixed(m.passivePercentage, 0) \o "%",
           "Use more active voice for engaging writing"),
     Check(m.aiPatternCount > 2,
           10,
           "Common AI writing patterns detected",
           "Use more conversational, human language"),
     Check(m.personalPronouns < 5,
           10,
           "Lacks personal connection",
           "Use personal pronouns to connect with readers") >>

HumanizationMetrics(m) ==
  [sentenceVariety |-> toFixed(m.stdDev, 1),
   passiveVoice |-> toFixed(m.passivePercentage, 0) \o "%"]

\* The return statement: the score floored at 0, every issue, the first
\* five recommendations, and the metrics.
HumanizationResult(checks, metrics) ==
  [score |-> Max(0, ScoreAfter(checks)),
   issues |-> Issues(checks),
   recommendations |-> Slice(Recommendations(checks), 5),
   metrics |-> metrics]

\* What the function measures of the content c, of the given sentences.
HumanizationMeasured(c, sentences) ==
  [stdDev |-> StdDev(SentenceLengths(c, sentences)),
   maxRepetition |-> MaxRepetition(Starters(c, sentences)),
   sentencesLength |-> Len(sentences),
   passivePercentage |->
     JsTimes(JsDiv(MatchCount(rePassive, c, TRUE), Len(sentences)), 100),
   aiPatternCount |->
     Cardinality({k \in 1..Len(aiPatterns) : Test(aiPatterns[k], c, TRUE)}),
   personalPronouns |-> MatchCount(rePronouns, c, TRUE)]

HumanizationMeasure(c) == HumanizationMeasured(c, Sentences(c))

HumanizationScored(m) ==
  HumanizationResult(HumanizationChecks(m), HumanizationMetrics(m))

calculateHumanizationScore(c) == HumanizationScored(HumanizationMeasure(c))

(***************************************************************************)
(* calculateDifferentiationScore.  year is new Date().getFullYear().       *)
(***************************************************************************)
\* /for example|for instance|case study|real.world/i
reExamples ==
  Alt(<<Str("for example"), Str("for instance"), Str("case study"),
        Cat(<<Str("real"), AnyChar, Str("world")>>)>>)
\* /\b(I|we)\s+(realized|discovered|found|learned)\b/i
reStories ==
  Cat(<<WordB, Alt(<<Str("I"), Str("we")>>), Plus(Cls(SpaceChars)),
        Alt(<<Str("realized"), Str("discovered"), Str("found"),
              Str("learned")>>), WordB>>)
\* /\b(believe|think|opinion|perspective|view)\b/i
reOpinion ==
  Cat(<<WordB, Alt(<<Str("believe"), Str("think"), Str("opinion"),
                     Str("perspective"), Str("view")>>), WordB>>)
\* new RegExp(`\\b${currentYear}\\b`)
reRecentDate(year) == Cat(<<WordB, Str(ToString(year)), WordB>>)

DifferentiationFallback ==
  [score |-> 60,
   issues |-> <<"Unable to perform full uniqueness analysis">>,
   recommendations |-> <<"Add unique examples, stories, and perspectives">>]

DifferentiationChecks(m) ==
  << Check(~m.hasExamples,
           20,
           "No concrete examples or case studies",
           "Add real-world examples and case studies"),
     Check(~m.hasStories,
           15,
           "Lacks personal stories or experiences",
           "Include personal anecdotes or experiences"),
     Check(~m.hasOpinion,
           15,
           "No clear point of view",
           "Express unique perspectives or opinions"),
     Check(~m.hasRecentDate,
           10,
           "Content may lack current information",
           "Update with recent data and trends") >>

\* DifferentiationResult with the issue of the AI analysis costing 5.
DifferentiationResultCharged(checks, analysis) ==
  [score |-> Max(0, ScoreAfter(checks) - 5),
   issues |-> Append(Issues(checks),
                     "AI uniqueness check: " \o Substring100(analysis)),
   recommendations |->
     Slice(Append(Recommendations(checks),
                  "Review AI analysis for specific differentiation opportunities"),
           5)]

\* The return statement of the try block, after the issue and the
\* recommendation of the AI analysis were pushed.
DifferentiationResult(checks, analysis) ==
  [score |-> Max(0, ScoreAfter(checks)),
   issues |-> Append(Issues(checks),
                     "AI uniqueness check: " \o Substring100(analysis)),
   recommendations |->
     Slice(Append(Recommendations(checks),
                  "Review AI analysis for specific differentiation opportunities"),
           5)]

\* What the function measures of the content c in the given year.
DifferentiationMeasure(c, year) ==
  [hasExamples |-> Test(reExamples, c, TRUE),
   hasStories |-> Test(reStories, c, TRUE),
   hasOpinion |-> Test(reOpinion, c, TRUE),
   hasRecentDate |-> Test(reRecentDate(year), c, FALSE)]

DifferentiationScored(m, analysis) ==
  DifferentiationResult(DifferentiationChecks(m), analysis)

DifferentiationSuccess(c, analysis, year) ==
  DifferentiationScored(DifferentiationMeasure(c, year), analysis)

calculateDifferentiationScore(c, reply, year) ==
  IF reply.kind = "ok"
  THEN DifferentiationSuccess(c, reply.analysis, year)
  ELSE DifferentiationFallback

(***************************************************************************)
(* The inputs                                                              *)
(***************************************************************************)
\* The longest content of the exhaustive part of Contents.
MaxLen == 3

\* The characters of the exhaustive part: a word character, a space, a
\* sentence end, a line end and the header mark.
Sigma == {"a", " ", ".", "\n", "#"}

ShortContents == UNION {[1..n -> Sigma] : n \in 0..MaxLen}

\* piece, n times
Repeat(piece, n) ==
  [i \in 1..(n * Len(piece)) |-> piece[((i - 1) % Len(piece)) + 1]]

\* Documents on which the checks of the analyzers come out differently
\* (none has the 1000 words the word count check of calculateSERPScore
\* asks for).
DocRich ==
  Chars("I was needed. We were being added! FAQ: how to? In 2026 we found 50% of experts think this is real-world.\n\n- a\n1. b\n* c\nFurthermore, moreover, in conclusion you and your us.")
DocAnswers ==
  Chars("Frequently asked questions: what is it?\n- one\n- two\n* three\nStep 1 refers to the first item.")
DocHuman ==
  Chars("I like you. We saw your dog and our cat and all of us went together on one very long walk home today. You go! Then stop? Big red foxes jump over the lazy dog again and again every single day of the whole week without ever getting tired of it at all.")
DocPassive ==
  Chars("It was added. It was tested. It was shipped. It was used. It was loved.")
DocStats ==
  Chars("According to a study, usage grew 3 times in 12 months. For example we learned it in 2025; I believe.")
\* One sentence of 150 short words: every check of calculateSEOScore fails.
DocRunOn == Repeat(Chars("a "), 150)
\* One H1, two H2, three links, 313 words of which "topic" is 4: no check of
\* calculateSEOScore fails.
DocSEO ==
  Chars("# Guide\n## Intro\n## Usage\n")
    \o Repeat(Chars("topic ") \o Repeat(Chars("a "), 74) \o Chars("b. "), 4)
    \o Chars("[a](b) [c](d) [e](f)")

\* Documents at the word counts the checks ask for.  The words of
\* calculateSERPScore are the pieces between runs of white space: 999,
\* 1000 (with a statistic and a citation), 1500 and 1501 of them.
DocWords999 == Repeat(Chars("a "), 998) \o Chars("a")
DocWords1000 == Chars("expert 5% ") \o Repeat(Chars("a "), 997) \o Chars("a")
DocWords1500 == Repeat(Chars("a "), 1499) \o Chars("a")
DocWords1501 == Repeat(Chars("a "), 1500) \o Chars("a")
\* One H1, two H2, three links and 400 words of which "topic" is 6, in
\* sentences of 65 words.
DocDense ==
  Chars("# Guide\n## Intro\n## Usage\n")
    \o Repeat(Chars("topic ") \o Repeat(Chars("a "), 63) \o Chars("b. "), 6)
    \o Chars("c [a](b) [c](d) [e](f)")
\* The same without a sentence end: one sentence of 400 words.
DocDenseRunOn ==
  Chars("# Guide\n## Intro\n## Usage\n")
    \o Repeat(Chars("topic ") \o Repeat(Chars("a "), 63) \o Chars("b "), 6)
    \o Chars("c [a](b) [c](d) [e](f)")

LongDocs ==
  {DocWords999, DocWords1000, DocWords1500, DocWords1501, DocDense,
   DocDenseRunOn}

\* Every sentence starts with "Constructor", the one word longer than 4.
DocConstructor == Chars("Constructor a. Constructor b. Constructor c.")

\* One sentence and one paragraph of 257 words and 548 characters, passive,
\* with three of the AI phrases: every check of every analyzer fails.
DocWorst ==
  Chars("it was added furthermore moreover in conclusion ")
    \o Repeat(Chars("a "), 250)

SampleDocs ==
  {DocRich, DocAnswers, DocHuman, DocPassive, DocStats, DocRunOn, DocSEO,
   DocConstructor, DocWorst}

Contents == ShortContents \cup SampleDocs

\* The request body as req.json() reads it: a content string, a body that is
\* no JSON (req.json() rejects), or JSON without a content field (content is
\* undefined and content.length throws).
Bodies ==
  {[kind |-> "content", content |-> c] : c \in Contents}
    \cup {[kind |-> "invalid", content |-> <<>>],
          [kind |-> "missing", content |-> <<>>]}

\* The requests that carry one of the long documents.
LongBodies == {[kind |-> "content", content |-> c] : c \in LongDocs}

\* Deno.env.get("LOVABLE_API_KEY"): undefined, or a string.
EnvValues ==
  {[set |-> FALSE, value |-> ""], [set |-> TRUE, value |-> ""],
   [set |-> TRUE, value |-> "key"]}

\* new Date().getFullYear()
Years == {2025, 2026}

\* What choices[0].message.content can be: a short text and one of more
\* than 100 characters.
LongText ==
  "0123456789012345678901234567890123456789012345678901234567890123456789012345678901234567890123456789tail"
AnalysisTexts == {"Looks fine", LongText}

\* How an external call ends: fetch rejects; the response is not ok; its
\* body is no JSON; the JSON has no choices[0].message.content string; or
\* it has one.
FetchOutcomes == {"rejected", "status", "response"}
Replies ==
  {[kind |-> k, analysis |-> ""] : k \in {"rejected", "status", "unparsable", "shape"}}
    \cup {[kind |-> "ok", analysis |-> a] : a \in AnalysisTexts}

(***************************************************************************)
(* The handler: serve(async (req) => ...).  pc is the await at which the   *)
(* handler stands.                                                         *)
(***************************************************************************)
VARIABLES
  method,                \* req.method
  body,                  \* the request body
  env,                   \* the LOVABLE_API_KEY of the environment
  pc,                    \* "start", "json", "serp_fetch", "serp_json",
                         \* "diff_fetch", "diff_json", "done"
  seoScore, serpScore, aeoScore, humanizationScore, differentiationScore,
  serpReply, diffReply,  \* how each external call ended
  year,                  \* the year calculateDifferentiationScore read
  fetches,               \* the external requests issued, in order
  pending,               \* the external requests not yet settled
  clock,                 \* the steps the handler has made
  responses              \* the responses returned, in order

vars ==
  <<method, body, env, pc, seoScore, serpScore, aeoScore, humanizationScore,
    differentiationScore, serpReply, diffReply, year, fetches, pending,
    clock, responses>>

\* A local that has no value yet.
Undefined == [undefined |-> TRUE]
NoReply == [kind |-> "none", analysis |-> ""]

content == body.content

Init ==
  /\ method \in {"OPTIONS", "POST"}
  /\ body \in Bodies
  /\ env \in EnvValues
  /\ pc = "start"
  /\ seoScore = Undefined
  /\ serpScore = Undefined
  /\ aeoScore = Undefined
  /\ humanizationScore = Undefined
  /\ differentiationScore = Undefined
  /\ serpReply = NoReply
  /\ diffReply = NoReply
  /\ year = 0
  /\ fetches = <<>>
  /\ pending = {}
  /\ clock = 0
  /\ responses = <<>>

\* The handler on a request that carries one of the long documents.
InitLong ==
  /\ method \in {"OPTIONS", "POST"}
  /\ body \in LongBodies
  /\ env \in EnvValues
  /\ pc = "start"
  /\ seoScore = Undefined
  /\ serpScore = Undefined
  /\ aeoScore = Undefined
  /\ humanizationScore = Undefined
  /\ differentiationScore = Undefined
  /\ serpReply = NoReply
  /\ diffReply = NoReply
  /\ year = 0
  /\ fetches = <<>>
  /\ pending = {}
  /\ clock = 0
  /\ responses = <<>>

ErrorResponse(message) == [status |-> 500, body |-> [error |-> message]]

\* Fail answering with what was computed so far instead of the error alone.
FailPartial(message) ==
  /\ responses' = Append(responses,
                         [status |-> 200,
                          body |-> [seoScore |-> seoScore, error |-> message]])
  /\ pc' = "done"

\* Fail with the error swallowed: the handler ends without a response.
FailSilent(message) ==
  /\ pc' = "done"
  /\ UNCHANGED responses

\* The catch block of the handler: the error becomes the response.
Fail(message) ==
  /\ responses' = Append(responses, ErrorResponse(message))
  /\ pc' = "done"

\* if (req.method === "OPTIONS") return new Response(null, ...)
Options ==
  /\ pc = "start"
  /\ method = "OPTIONS"
  /\ responses' = Append(responses, [status |-> 200, body |-> [empty |-> TRUE]])
  /\ pc' = "done"
  /\ clock' = clock + 1
  /\ UNCHANGED <<method, body, env, seoScore, serpScore, aeoScore,
                 humanizationScore, differentiationScore, serpReply,
                 diffReply, year, fetches, pending>>

\* await req.json()
ReadBody ==
  /\ pc = "start"
  /\ method # "OPTIONS"
  /\ pc' = "json"
  /\ clock' = clock + 1
  /\ UNCHANGED <<method, body, env, seoScore, serpScore, aeoScore,
                 humanizationScore, differentiationScore, serpReply,
                 diffReply, year, fetches, pending, responses>>

\* KeyConfigured without the check.
AnyKey(e) == TRUE

\* if (!LOVABLE_API_KEY): undefined and the empty string are falsy.
KeyConfigured(e) == e.set /\ e.value # ""

\* StartAnalysis calling both AI-assisted analyzers before awaiting either
\* (Promise.all): both requests are sent.
StartBoth ==
  /\ seoScore' = calculateSEOScore(content)
  /\ fetches' = fetches \o <<"serp", "diff">>
  /\ pending' = pending \cup {"serp", "diff"}
  /\ pc' = "serp_fetch"
  /\ UNCHANGED responses

\* calculateSEOScore runs, and calculateSERPScore runs to its first await,
\* sending its request.
StartAnalysis ==
  /\ seoScore' = calculateSEOScore(content)
  /\ fetches' = Append(fetches, "serp")
  /\ pending' = pending \cup {"serp"}
  /\ pc' = "serp_fetch"
  /\ UNCHANGED responses

\* From the body to the first await of calculateSERPScore: the body is
\* read, the key is checked, and the analysis starts.
Analyze ==
  /\ pc = "json"
  /\ clock' = clock + 1
  /\ IF body.kind = "invalid"
     THEN /\ Fail("Unexpected token")
          /\ UNCHANGED <<seoScore, fetches, pending>>
     ELSE IF body.kind = "missing"
     THEN /\ Fail("Cannot read properties of undefined (reading 'length')")
          /\ UNCHANGED <<seoScore, fetches, pending>>
     ELSE IF ~KeyConfigured(env)
     THEN /\ Fail("LOVABLE_API_KEY is not configured")
          /\ UNCHANGED <<seoScore, fetches, pending>>
     ELSE StartAnalysis
  /\ UNCHANGED <<method, body, env, serpScore, aeoScore, humanizationScore,
                 differentiationScore, serpReply, diffReply, year>>

\* AfterSERP with a failed SERP call spoiling calculateAEOScore too.
AfterSERPCoupled(reply) ==
  /\ serpReply' = reply
  /\ serpScore' = calculateSERPScore(content, reply)
  /\ aeoScore' = IF reply.kind = "ok" THEN calculateAEOScore(content)
                 ELSE AEOResult(<<>>)
  /\ humanizationScore' = calculateHumanizationScore(content)
  /\ fetches' = Append(fetches, "diff")
  /\ pending' = (pending \ {"serp"}) \cup {"diff"}
  /\ pc' = "diff_fetch"

\* AfterSERP with one retry of a failed SERP call.
AfterSERPRetry(reply) ==
  IF reply.kind # "ok" /\ Len(fetches) = 1
  THEN /\ fetches' = Append(fetches, "serp")
       /\ pc' = "serp_fetch"
       /\ UNCHANGED <<serpReply, serpScore, aeoScore, humanizationScore,
                      pending>>
  ELSE /\ serpReply' = reply
       /\ serpScore' = calculateSERPScore(content, reply)
       /\ aeoScore' = calculateAEOScore(content)
       /\ humanizationScore' = calculateHumanizationScore(content)
       /\ fetches' = Append(fetches, "diff")
       /\ pending' = (pending \ {"serp"}) \cup {"diff"}
       /\ pc' = "diff_fetch"

\* calculateSERPScore has returned: calculateAEOScore and
\* calculateHumanizationScore run, and calculateDifferentiationScore runs
\* to its await, sending its request.
AfterSERP(reply) ==
  /\ serpReply' = reply
  /\ serpScore' = calculateSERPScore(content, reply)
  /\ aeoScore' = calculateAEOScore(content)
  /\ humanizationScore' = calculateHumanizationScore(content)
  /\ fetches' = Append(fetches, "diff")
  /\ pending' = (pending \ {"serp"}) \cup {"diff"}
  /\ pc' = "diff_fetch"

\* await fetch(...) of calculateSERPScore settles.
SERPFetched ==
  /\ pc = "serp_fetch"
  /\ clock' = clock + 1
  /\ \E o \in FetchOutcomes :
       IF o = "response"
       THEN /\ pc' = "serp_json"
            /\ UNCHANGED <<serpReply, serpScore, aeoScore, humanizationScore,
                           fetches, pending>>
       ELSE AfterSERP([kind |-> o, analysis |-> ""])
  /\ UNCHANGED <<method, body, env, seoScore, differentiationScore, diffReply,
                 year, responses>>

\* await response.json() of calculateSERPScore settles.
SERPRead ==
  /\ pc = "serp_json"
  /\ clock' = clock + 1
  /\ \E reply \in {r \in Replies : r.kind \in {"unparsable", "shape", "ok"}} :
       AfterSERP(reply)
  /\ UNCHANGED <<method, body, env, seoScore, differentiationScore, diffReply,
                 year, responses>>

\* AfterDifferentiation with the reading of the reply outside the try
\* block: a body that cannot be read reaches the catch block of the
\* handler.
AfterDifferentiationThrown(reply, y) ==
  IF reply.kind \in {"unparsable", "shape"}
  THEN /\ Fail("Unexpected token")
       /\ diffReply' = reply
       /\ year' = y
       /\ pending' = pending \ {"diff"}
       /\ UNCHANGED differentiationScore
  ELSE LET result == calculateDifferentiationScore(content, reply, y)
       IN /\ diffReply' = reply
          /\ year' = y
          /\ differentiationScore' = result
          /\ pending' = pending \ {"diff"}
          /\ responses' =
               Append(responses,
                      [status |-> 200,
                       body |-> [seoScore |-> seoScore,
                                 serpScore |-> serpScore,
                                 aeoScore |-> aeoScore,
                                 humanizationScore |-> humanizationScore,
                                 differentiationScore |-> result,
                                 timestamp |-> clock + 1]])
          /\ pc' = "done"

\* calculateDifferentiationScore has returned: the result is assembled,
\* stamped and returned.
AfterDifferentiation(reply, y) ==
  LET result == calculateDifferentiationScore(content, reply, y)
  IN /\ diffReply' = reply
     /\ year' = y
     /\ differentiationScore' = result
     /\ pending' = pending \ {"diff"}
     /\ responses' =
          Append(responses,
                 [status |-> 200,
                  body |-> [seoScore |-> seoScore,
                            serpScore |-> serpScore,
                            aeoScore |-> aeoScore,
                            humanizationScore |-> humanizationScore,
                            differentiationScore |-> result,
                            timestamp |-> clock + 1]])
     /\ pc' = "done"

\* await fetch(...) of calculateDifferentiationScore settles.
DifferentiationFetched ==
  /\ pc = "diff_fetch"
  /\ clock' = clock + 1
  /\ \E o \in FetchOutcomes :
       IF o = "response"
       THEN /\ pc' = "diff_json"
            /\ UNCHANGED <<diffReply, year, differentiationScore, pending,
                           responses>>
       ELSE AfterDifferentiation([kind |-> o, analysis |-> ""], 0)
  /\ UNCHANGED <<method, body, env, seoScore, serpScore, aeoScore,
                 humanizationScore, serpReply, fetches>>

\* await response.json() of calculateDifferentiationScore settles.
DifferentiationRead ==
  /\ pc = "diff_json"
  /\ clock' = clock + 1
  /\ \E reply \in {r \in Replies : r.kind \in {"unparsable", "shape", "ok"}} :
       \E y \in (IF reply.kind = "ok" THEN Years ELSE {0}) :
         AfterDifferentiation(reply, y)
  /\ UNCHANGED <<method, body, env, seoScore, serpScore, aeoScore,
                 humanizationScore, serpReply, fetches>>

Next ==
  \/ Options
  \/ ReadBody
  \/ Analyze
  \/ SERPFetched
  \/ SERPRead
  \/ DifferentiationFetched
  \/ DifferentiationRead

Spec == Init /\ [][Next]_vars

SpecLong == InitLong /\ [][Next]_vars

\* The handler stands at the start or at an await: each action of Next
\* asks for one of these and has a branch for every request and outcome.
Runnable ==
  pc \in {"start", "json", "serp_fetch", "serp_json", "diff_fetch", "diff_json"}

\* The handler makes a step: every action of Next counts it in clock.
Tick == Runnable /\ clock' = clock + 1

\* The handler when every await settles: the body is read, and each
\* external call issued resolves or rejects, so a handler that can make a
\* step makes one in the end.
SpecFair == Init /\ [][Next]_vars /\ WF_clock(Tick)

(***************************************************************************)
(* The three synchronous analyzers as functions of the content alone,      *)
(* called any number of times in any order.  Each of seoScore, aeoScore    *)
(* and humanizationScore is what the last call of its analyzer returned;   *)
(* clock counts the calls.                                                 *)
(***************************************************************************)
\* The most calls made on one content.
MaxCalls == 3

InitCalls ==
  /\ method = "POST"
  /\ body \in {b \in Bodies : b.kind = "content"}
  /\ env = [set |-> TRUE, value |-> "key"]
  /\ pc = "calls"
  /\ seoScore = Undefined
  /\ serpScore = Undefined
  /\ aeoScore = Undefined
  /\ humanizationScore = Undefined
  /\ differentiationScore = Undefined
  /\ serpReply = NoReply
  /\ diffReply = NoReply
  /\ year = 0
  /\ fetches = <<>>
  /\ pending = {}
  /\ clock = 0
  /\ responses = <<>>

\* CallSEO with a counter kept between calls: a call after the first sees
\* what the calls before it left behind.
CallSEOCarried ==
  /\ pc = "calls"
  /\ clock < MaxCalls
  /\ clock' = clock + 1
  /\ seoScore' = IF clock = 0 THEN calculateSEOScore(content)
                 ELSE SEOResult(<<>>, calculateSEOScore(content).metrics)
  /\ UNCHANGED <<method, body, env, pc, serpScore, aeoScore,
                 humanizationScore, differentiationScore, serpReply,
                 diffReply, year, fetches, pending, responses>>

CallSEO ==
  /\ pc = "calls"
  /\ clock < MaxCalls
  /\ clock' = clock + 1
  /\ seoScore' = calculateSEOScore(content)
  /\ UNCHANGED <<method, body, env, pc, serpScore, aeoScore,
                 humanizationScore, differentiationScore, serpReply,
                 diffReply, year, fetches, pending, responses>>

CallAEO ==
  /\ pc = "calls"
  /\ clock < MaxCalls
  /\ clock' = clock + 1
  /\ aeoScore' = calculateAEOScore(content)
  /\ UNCHANGED <<method, body, env, pc, seoScore, serpScore,
                 humanizationScore, differentiationScore, serpReply,
                 diffReply, year, fetches, pending, responses>>

CallHumanization ==
  /\ pc = "calls"
  /\ clock < MaxCalls
  /\ clock' = clock + 1
  /\ humanizationScore' = calculateHumanizationScore(content)
  /\ UNCHANGED <<method, body, env, pc, seoScore, serpScore, aeoScore,
                 differentiationScore, serpReply, diffReply, year, fetches,
                 pending, responses>>

NextCalls ==
  \/ CallSEO
  \/ CallAEO
  \/ CallHumanization

SpecCalls == InitCalls /\ [][NextCalls]_vars

(***************************************************************************)
(* Properties                                                              *)
(***************************************************************************)
Range(seq) == {seq[k] : k \in DOMAIN seq}

ScoreFields ==
  {"seoScore", "serpScore", "aeoScore", "humanizationScore",
   "differentiationScore"}

\* The request is an analysis request with a content string.
Analysis == method = "POST" /\ body.kind = "content"

\* The ways an external call throws or returns a non-success status.
CallFailures == {"rejected", "status"}

\* C1: for every content, the score that calculateSEOScore,
\* calculateAEOScore and calculateHumanizationScore return is an integer
\* from 0 to 100.
C1_ScoreInRange ==
  \A r \in {seoScore, aeoScore, humanizationScore} :
    r # Undefined => r.score \in 0..100

\* The three have run on the document whose SEO checks all fail.
C1_Witness ==
  /\ pc = "done"
  /\ Analysis
  /\ content = DocRunOn
  /\ seoScore # Undefined /\ seoScore.score = 20
  /\ aeoScore # Undefined /\ aeoScore.score < 100
  /\ humanizationScore # Undefined /\ humanizationScore.score < 100

\* C2: when the external call of an AI-assisted analyzer throws or returns
\* a non-success status, the analyzer returns its fixed fallback whatever
\* the content (calculateSERPScore: score 50, the one issue "Unable to
\* perform full SERP analysis", one recommendation, predictedRank
\* "Unknown"; calculateDifferentiationScore: score 60, one issue, one
\* recommendation), and the error is not propagated: the response is a
\* success response.
C2_FallbackLaw ==
  /\ serpReply.kind \in CallFailures =>
       serpScore =
         [score |-> 50,
          issues |-> <<"Unable to perform full SERP analysis">>,
          recommendations |->
            <<"Ensure content is comprehensive and well-researched">>,
          predictedRank |-> "Unknown"]
  /\ diffReply.kind \in CallFailures =>
       differentiationScore =
         [score |-> 60,
          issues |-> <<"Unable to perform full uniqueness analysis">>,
          recommendations |->
            <<"Add unique examples, stories, and perspectives">>]
  /\ (pc = "done"
        /\ (serpReply.kind \in CallFailures \/ diffReply.kind \in CallFailures))
       => Len(responses) = 1 /\ responses[1].status = 200

\* Both calls failed, one each way, on a content that would otherwise
\* score differently.
C2_Witness ==
  /\ pc = "done"
  /\ content = DocStats
  /\ serpReply.kind = "status"
  /\ diffReply.kind = "rejected"
  /\ responses # <<>> /\ responses[1].status = 200

\* The number of the rule checks that failed, for each analyzer.
FailedSEO == Len(Failed(SEOChecks(SEOMeasure(content))))
FailedAEO == Len(Failed(AEOChecks(AEOMeasure(content))))
FailedHumanization ==
  Len(Failed(HumanizationChecks(HumanizationMeasure(content))))
FailedSERP == Len(Failed(SERPChecks(SERPMeasure(content))))
FailedDifferentiation(y) ==
  Len(Failed(DifferentiationChecks(DifferentiationMeasure(content, y))))

\* The step of C3_RecommendationCount.
RecommendationCountStep ==
  /\ seoScore' # seoScore =>
      /\ Len(seoScore'.recommendations) = Min(FailedSEO, 5)
      /\ Len(seoScore'.issues) = FailedSEO
  /\ aeoScore' # aeoScore =>
      /\ Len(aeoScore'.recommendations) = Min(FailedAEO, 5)
      /\ Len(aeoScore'.issues) = FailedAEO
  /\ humanizationScore' # humanizationScore =>
      /\ Len(humanizationScore'.recommendations)
           = Min(FailedHumanization, 5)
      /\ Len(humanizationScore'.issues) = FailedHumanization
  /\ serpScore' # serpScore =>
      /\ Len(serpScore'.recommendations)
           = IF serpReply'.kind = "ok" THEN Min(FailedSERP + 1, 5) ELSE 1
      /\ Len(serpScore'.recommendations) <= 5
  /\ differentiationScore' # differentiationScore =>
      /\ Len(differentiationScore'.recommendations)
           = IF diffReply'.kind = "ok"
             THEN Min(FailedDifferentiation(year') + 1, 5)
             ELSE 1
      /\ Len(differentiationScore'.recommendations) <= 5

\* C3: for every content and every analyzer, recommendations has at most
\* 5 entries, as many as issues has up to 5: min(failed rule checks, 5)
\* for calculateSEOScore, calculateAEOScore and
\* calculateHumanizationScore; min(failed rule checks + 1, 5) for
\* calculateSERPScore and calculateDifferentiationScore when the call
\* succeeded, the one more being the recommendation of the AI analysis;
\* and exactly 1 on their fallback path, where no rule check is reported.
\* Stated of each step that sets a result.
C3_RecommendationCount == [][RecommendationCountStep]_vars

\* Six SEO checks failed and five recommendations were kept; the SERP call
\* succeeded with three failed checks and four recommendations; the
\* Differentiation call failed.
C3_Witness ==
  /\ pc = "done"
  /\ seoScore # Undefined
  /\ Len(seoScore.issues) = 6 /\ Len(seoScore.recommendations) = 5
  /\ serpReply.kind = "ok"
  /\ Len(serpScore.issues) = 4 /\ Len(serpScore.recommendations) = 4
  /\ diffReply.kind = "status"
  /\ Len(differentiationScore.recommendations) = 1

\* The step of C3_Original.
ClaimedCountStep ==
  /\ seoScore' # seoScore =>
      Len(seoScore'.recommendations) = Min(FailedSEO, 5)
  /\ aeoScore' # aeoScore =>
      Len(aeoScore'.recommendations) = Min(FailedAEO, 5)
  /\ humanizationScore' # humanizationScore =>
      Len(humanizationScore'.recommendations)
        = Min(FailedHumanization, 5)
  /\ (serpScore' # serpScore /\ serpReply'.kind = "ok") =>
      Len(serpScore'.recommendations) = Min(FailedSERP, 5)
  /\ (differentiationScore' # differentiationScore
        /\ diffReply'.kind = "ok") =>
      Len(differentiationScore'.recommendations)
        = Min(FailedDifferentiation(year'), 5)

\* C3 as claimed: on the success path of calculateSERPScore and
\* calculateDifferentiationScore too, recommendations has min(failed rule
\* checks, 5) entries.
C3_Original == [][ClaimedCountStep]_vars

\* C4: in one analysis run the two external calls are made one after the
\* other: the Differentiation call is issued only once calculateSERPScore
\* has returned, so at most one call is in flight at any time, and both
\* have settled when the result record is assembled; the latency of the
\* run is the sum of the two.
C4_Sequential ==
  /\ Cardinality(pending) <= 1
  /\ "diff" \in Range(fetches) =>
       /\ fetches = <<"serp", "diff">>
       /\ serpScore # Undefined
       /\ "serp" \notin pending
  /\ (pc = "done" /\ Analysis /\ responses[1].status = 200) =>
       /\ pending = {}
       /\ fetches = <<"serp", "diff">>

\* The Differentiation call is in flight, after the SERP call succeeded.
C4_Witness ==
  /\ pc = "diff_fetch"
  /\ pending = {"diff"}
  /\ serpReply.kind = "ok"

\* C4 as claimed: the Differentiation call does not wait for the SERP
\* call, so whenever the SERP call is in flight the Differentiation call
\* has been issued.
C4_Original == "serp" \in pending => "diff" \in Range(fetches)

\* C5: when LOVABLE_API_KEY is missing, the request fails as a whole: no
\* analyzer runs, no external call is issued, and the response is a 500
\* with an error object carrying a message.
C5_MissingKey ==
  (Analysis /\ (~env.set \/ env.value = "")) =>
    /\ fetches = <<>>
    /\ \A r \in {seoScore, serpScore, aeoScore, humanizationScore,
                 differentiationScore} : r = Undefined
    /\ pc = "done" =>
         responses =
           <<[status |-> 500,
              body |-> [error |-> "LOVABLE_API_KEY is not configured"]]>>

\* The key is not set and the request was answered.
C5_Witness ==
  /\ pc = "done"
  /\ Analysis
  /\ content = DocRich
  /\ ~env.set
  /\ Len(responses) = 1

\* C6: every response to a request that is not OPTIONS is either a success
\* with the five score results and a timestamp, or an error with nothing
\* but the error; none has only some of the five.
C6_CompleteOrError ==
  method # "OPTIONS" =>
    \A k \in DOMAIN responses :
      \/ /\ responses[k].status = 200
         /\ DOMAIN responses[k].body = ScoreFields \cup {"timestamp"}
         /\ \A f \in ScoreFields :
              {"score", "issues", "recommendations"}
                \subseteq DOMAIN responses[k].body[f]
      \/ /\ responses[k].status = 500
         /\ DOMAIN responses[k].body = {"error"}

\* A success response after both external calls failed.
C6_Witness ==
  /\ pc = "done"
  /\ method = "POST"
  /\ serpReply.kind = "rejected"
  /\ diffReply.kind = "shape"
  /\ Len(responses) = 1 /\ responses[1].status = 200

\* The step of C7_Frame: a result that is set is the analyzer's value for
\* the content and, for the AI-assisted two, for the outcome of its own
\* call; the response of an analysis that started carries the five as
\* they were set.
FrameStep ==
  /\ seoScore' # seoScore => seoScore' = calculateSEOScore(content)
  /\ aeoScore' # aeoScore => aeoScore' = calculateAEOScore(content)
  /\ humanizationScore' # humanizationScore =>
      humanizationScore' = calculateHumanizationScore(content)
  /\ serpScore' # serpScore =>
      serpScore' = calculateSERPScore(content, serpReply')
  /\ differentiationScore' # differentiationScore =>
      differentiationScore'
        = calculateDifferentiationScore(content, diffReply', year')
  /\ (responses' # responses /\ fetches # <<>>) =>
      /\ Len(responses') = 1
      /\ responses'[1].status = 200
      /\ \A f \in ScoreFields :
           responses'[1].body[f]
             = [seoScore |-> seoScore',
                serpScore |-> serpScore',
                aeoScore |-> aeoScore',
                humanizationScore |-> humanizationScore',
                differentiationScore |-> differentiationScore'][f]

\* C7: the failure of the external call of one AI-assisted analyzer
\* changes that analyzer's result alone: in the response seoScore,
\* aeoScore and humanizationScore are what the content gives whatever way
\* the two calls end, serpScore is what the content and the SERP call
\* give, differentiationScore what the content and the Differentiation
\* call give, and the response is a success response.
C7_Frame == [][FrameStep]_vars

\* The SERP call failed; the Differentiation call succeeded and found
\* nothing to penalize.
C7_Witness ==
  /\ pc = "done"
  /\ content = DocStats
  /\ serpReply.kind \in CallFailures
  /\ diffReply.kind = "ok"
  /\ differentiationScore.score = 100
  /\ Len(responses) = 1
  /\ responses[1].status = 200
  /\ responses[1].body.differentiationScore.score = 100
  /\ responses[1].body.serpScore.score = 50

\* C8: no external call is retried: each AI-assisted analyzer issues at
\* most one request in a run, whether it succeeds or fails, so a run
\* issues at most two.
C8_NoRetry ==
  /\ Cardinality({k \in DOMAIN fetches : fetches[k] = "serp"}) <= 1
  /\ Cardinality({k \in DOMAIN fetches : fetches[k] = "diff"}) <= 1
  /\ Len(fetches) <= 2

\* Both calls failed and the run ended after one request each.
C8_Witness ==
  /\ pc = "done"
  /\ serpReply.kind = "rejected"
  /\ diffReply.kind = "status"
  /\ fetches = <<"serp", "diff">>

\* What toFixed gives for a value that is no finite number.
NotNumbers == {"NaN", "Infinity", "-Infinity"}

\* C9 as claimed: the emitted metrics of a content with no word or no
\* sentence hold a defined value for every ratio (keyword density,
\* readability score, sentence variety, passive voice), never NaN or
\* Infinity.
C9_Sentinels ==
  /\ seoScore # Undefined =>
       /\ seoScore.metrics.keywordDensity \notin {n \o "%" : n \in NotNumbers}
       /\ seoScore.metrics.readabilityScore \notin NotNumbers
  /\ humanizationScore # Undefined =>
       /\ humanizationScore.metrics.sentenceVariety \notin NotNumbers
       /\ humanizationScore.metrics.passiveVoice
            \notin {n \o "%" : n \in NotNumbers}

\* C10: for the empty content calculateSEOScore reports wordCount 0, its
\* issues include the content-length issue, the missing H1 and the
\* insufficient H2, and its score is at most 80.
C10_EmptyContentSEO ==
  (body.kind = "content" /\ content = <<>> /\ seoScore # Undefined) =>
    /\ seoScore.metrics.wordCount = 0
    /\ {"Content too short: 0 words (Min: 300)",
        "Missing H1 header",
        "Insufficient H2 headers"} \subseteq Range(seoScore.issues)
    /\ seoScore.score <= 80

\* calculateSEOScore has run on the empty content.
C10_Witness ==
  /\ body.kind = "content"
  /\ content = <<>>
  /\ seoScore # Undefined
  /\ seoScore.score = 45

\* The content has no FAQ phrasing, fewer than 3 list lines, no how-to
\* phrasing and no definition phrasing.
AEOUnstructured(m) ==
  ~m.hasFAQ /\ m.listCount < 3 /\ ~m.hasHowTo /\ ~m.hasDefinitions

\* The content is longer than 500 characters for each paragraph on average
\* (a content that is not empty and has no paragraph included).
LongParagraphs == Len(content) > 500 * Len(Paragraphs(content))

\* The step of C11_Unstructured.
UnstructuredStep ==
  (aeoScore' # aeoScore /\ AEOUnstructured(AEOMeasure(content))) =>
    /\ aeoScore'.score <= 55
    /\ aeoScore'.score = IF LongParagraphs THEN 40 ELSE 55
    /\ Len(aeoScore'.recommendations) = IF LongParagraphs THEN 5 ELSE 4
    /\ Len(aeoScore'.issues) = Len(aeoScore'.recommendations)
    /\ "Paragraphs too long for AI parsing" \in Range(aeoScore'.issues)
         <=> LongParagraphs

\* C11: for every content with no FAQ phrasing, fewer than 3 list lines,
\* no how-to phrasing and no definition phrasing, calculateAEOScore
\* returns a score of at most 55; the four checks of these fail, and the
\* paragraph check fails only when the average paragraph is longer than
\* 500 characters: score 40 and exactly 5 recommendations then, score 55
\* and exactly 4 recommendations otherwise.
C11_Unstructured == [][UnstructuredStep]_vars

\* calculateAEOScore has run on a content of one paragraph of 674
\* characters with none of the four: all five checks failed.
C11_Witness ==
  /\ body.kind = "content"
  /\ content = DocSEO
  /\ aeoScore # Undefined
  /\ aeoScore.score = 40
  /\ Len(aeoScore.recommendations) = 5

\* The step of C11_Original.
AllFiveStep ==
  (aeoScore' # aeoScore /\ AEOUnstructured(AEOMeasure(content))) =>
    /\ aeoScore'.score <= 55
    /\ Len(aeoScore'.recommendations) = 5

\* C11 as claimed: every such content gets a score of at most 55 and
\* exactly 5 recommendations, all five checks failing.
C11_Original == [][AllFiveStep]_vars

\* s begins with p
HasPrefix(s, p) == Len(s) >= Len(p) /\ SubSeq(s, 1, Len(p)) = p

\* One H1 line, two H2 lines, at least 350 words, 3 links and a keyword
\* density of exactly 1.5%.
WellFormed(m) ==
  /\ m.h1Count = 1
  /\ m.h2Count = 2
  /\ m.wordsLength >= 350
  /\ m.linkCount = 3
  /\ m.keywordDensity.k = "fin"
  /\ 2 * m.keywordDensity.n = 3 * m.keywordDensity.d

\* The step of C12_WellFormed.
WellFormedStep ==
  (seoScore' # seoScore /\ WellFormed(SEOMeasure(content))) =>
    /\ seoScore'.score >= 85
    /\ seoScore'.metrics.keywordDensity = "1.50%"
    /\ \A k \in DOMAIN seoScore'.issues :
         /\ seoScore'.issues[k]
              \notin {"Missing H1 header", "Insufficient H2 headers",
                      "Few or no links detected"}
         /\ ~HasPrefix(seoScore'.issues[k], "Content too short")
         /\ ~HasPrefix(seoScore'.issues[k], "Keyword density")

\* C12: for every content with exactly one H1 line, two H2 lines, at
\* least 350 words, 3 markdown links and a keyword density (the share of
\* the most frequent word longer than 4 characters, as metrics report it)
\* of 1.5%, calculateSEOScore returns a score of at least 85 and no
\* header, content-length, link or keyword-density issue.
C12_WellFormed == [][WellFormedStep]_vars

\* calculateSEOScore has run on such a content whose 400 words are one
\* sentence: the readability check alone failed.
C12_Witness ==
  /\ body.kind = "content"
  /\ content = DocDenseRunOn
  /\ seoScore # Undefined
  /\ seoScore.score = 90
  /\ seoScore.metrics.wordCount = 400
  /\ Len(seoScore.issues) = 1

\* The sentence starters of the content.
ContentStarters == Starters(content, Sentences(content))

\* One starter begins more than 20% of the sentences.
RepeatedStarter ==
  \E k \in DOMAIN ContentStarters :
    5 * Cardinality({j \in DOMAIN ContentStarters :
                       ContentStarters[j] = ContentStarters[k]})
      > Len(ContentStarters)

\* The penalties of the failed checks of calculateHumanizationScore other
\* than the starter check, which is the second.
OtherPenalties(checks) ==
  Penalties(checks, 1) - (IF checks[2].failed THEN checks[2].penalty ELSE 0)

\* The step of C13_RepetitiveStarters.
RepetitiveStartersStep ==
  (humanizationScore' # humanizationScore /\ RepeatedStarter) =>
    /\ "Repetitive sentence starters" \in Range(humanizationScore'.issues)
    /\ humanizationScore'.score <= 85
    /\ humanizationScore'.score
         = 100 - 15
             - OtherPenalties(HumanizationChecks(HumanizationMeasure(content)))

\* C13 as claimed: for every content in which one first word, case folded,
\* starts more than 20% of the sentences, the issues of
\* calculateHumanizationScore include "Repetitive sentence starters" and
\* the score is 15 lower than 100 minus the other triggered penalties,
\* hence at most 85.
C13_RepetitiveStarters == [][RepetitiveStartersStep]_vars

\* The step of C14_Deterministic.
DeterministicStep ==
  /\ seoScore # Undefined => seoScore' = seoScore
  /\ aeoScore # Undefined => aeoScore' = aeoScore
  /\ humanizationScore # Undefined => humanizationScore' = humanizationScore

ContentWords == Words(toLowerCase(content))
WordCount == Cardinality(DOMAIN ContentWords)

\* How often the most frequent word of at least 5 characters occurs; 0 if
\* there is none.
TopCount ==
  LET long == LongWords(ContentWords)
      times(i) == Cardinality({j \in DOMAIN long : long[j] = long[i]})
  IN IF DOMAIN long = {} THEN 0
     ELSE CHOOSE n \in {times(i) : i \in DOMAIN long} :
            \A i \in DOMAIN long : times(i) <= n

\* The lines of the content that begin with mark and a white space.
HeaderLines(mark) ==
  {i \in 1..(Len(content) - Len(mark)) :
     /\ i = 1 \/ content[i - 1] \in LineTerminators
     /\ SubSeq(content, i, i + Len(mark) - 1) = mark
     /\ content[i + Len(mark)] \in SpaceChars}

\* The penalties of C15, each with its condition: the density of the most
\* frequent word of at least 5 characters below 1% or above 2.5% (of a
\* content that has a word); 206.835 - 1.015 * words per sentence below
\* 60; no H1 line; fewer than two H2 lines; fewer than 300 words; fewer
\* than 2 links.
ClaimedSEOPenalties ==
  LET n == WordCount
      top == TopCount
  IN << IF n > 0 /\ (100 * top < n \/ 200 * top > 5 * n) THEN 15 ELSE 0,
        IF 1015 * n > 146835 * Len(Sentences(content)) THEN 10 ELSE 0,
        IF HeaderLines(<<"#">>) = {} THEN 15 ELSE 0,
        IF Cardinality(HeaderLines(<<"#", "#">>)) < 2 THEN 10 ELSE 0,
        IF n < 300 THEN 20 ELSE 0,
        IF MatchCount(reLink, content, FALSE) < 2 THEN 10 ELSE 0 >>

\* The step of C15_SEOFormula.
SEOFormulaStep ==
  seoScore' # seoScore =>
    LET claimed == ClaimedSEOPenalties
    IN /\ seoScore'.score = 100 - SumSeq(claimed, 1, 6)
       /\ Len(seoScore'.issues)
            = Cardinality({k \in 1..6 : claimed[k] > 0})

\* C15 as claimed: for every content the score of calculateSEOScore is
\* 100 minus the penalties of exactly the failed checks (15 keyword
\* density, 10 readability, 15 no H1, 10 fewer than two H2, 20 fewer than
\* 300 words, 10 fewer than 2 links), and each failed check contributes
\* exactly one issue.
C15_SEOFormula == [][SEOFormulaStep]_vars

\* The checks of each analyzer in the order the code evaluates them, each
\* as the beginning of its issue and its recommendation; the last of
\* calculateSERPScore and of calculateDifferentiationScore are the pair of
\* the AI analysis and the pair of the fallback.
SEOPairs ==
  << <<"Keyword density: ", "Adjust keyword density to 1-2% for better SEO">>,
     <<"Readability score: ", "Simplify sentences for better readability">>,
     <<"Missing H1 header", "Add a clear H1 header with your primary keyword">>,
     <<"Insufficient H2 headers",
       "Add more H2 headers to structure your content">>,
     <<"Content too short: ", "Expand content to at least 300 words">>,
     <<"Few or no links detected",
       "Add relevant internal and external links">> >>
AEOPairs ==
  << <<"No FAQ section detected",
       "Add FAQ section for better AI engine visibility">>,
     <<"Few structured lists",
       "Use bullet points and numbered lists for clarity">>,
     <<"Paragraphs too long for AI parsing",
       "Break content into shorter, scannable paragraphs">>,
     <<"No step-by-step instructions",
       "Add clear step-by-step instructions where applicable">>,
     <<"Lacks clear definitions", "Include clear definitions of key terms">> >>
HumanizationPairs ==
  << <<"Low sentence variety (robotic pattern)",
       "Vary sentence lengths for more natural flow">>,
     <<"Repetitive sentence starters", "Diversify how you begin sentences">>,
     <<"High passive voice: ", "Use more active voice for engaging writing">>,
     <<"Common AI writing patterns detected",
       "Use more conversational, human language">>,
     <<"Lacks personal connection",
       "Use personal pronouns to connect with readers">> >>
SERPPairs ==
  << <<"Word count: ",
       "Expand content to 1500+ words to compete with top SERP results">>,
     <<"No statistics or data points found",
       "Add concrete statistics and data to support claims">>,
     <<"No expert quotes or research citations",
       "Include expert opinions and research citations">>,
     <<"AI analysis: ",
       "Review AI-generated insights for detailed SERP optimization">>,
     <<"Unable to perform full SERP analysis",
       "Ensure content is comprehensive and well-researched">> >>
DifferentiationPairs ==
  << <<"No concrete examples or case studies",
       "Add real-world examples and case studies">>,
     <<"Lacks personal stories or experiences",
       "Include personal anecdotes or experiences">>,
     <<"No clear point of view", "Express unique perspectives or opinions">>,
     <<"Content may lack current information",
       "Update with recent data and trends">>,
     <<"AI uniqueness check: ",
       "Review AI analysis for specific differentiation opportunities">>,
     <<"Unable to perform full uniqueness analysis",
       "Add unique examples, stories, and perspectives">> >>

\* The place in pairs of the check the issue is of; 0 if it is of none.
RankOf(issue, pairs) ==
  IF \E j \in DOMAIN pairs : HasPrefix(issue, pairs[j][1])
  THEN CHOOSE j \in DOMAIN pairs : HasPrefix(issue, pairs[j][1])
  ELSE 0

\* The result r has count issues, each of a check of pairs, in the order
\* of pairs; its recommendations are those of its first 5 issues, one for
\* one.
Paired(r, pairs, count) ==
  /\ Len(r.issues) = count
  /\ \A i \in DOMAIN r.issues : RankOf(r.issues[i], pairs) > 0
  /\ \A i \in DOMAIN r.issues : \A j \in DOMAIN r.issues :
       i < j => RankOf(r.issues[i], pairs) < RankOf(r.issues[j], pairs)
  /\ Len(r.recommendations) = Min(count, 5)
  /\ \A i \in DOMAIN r.recommendations :
       r.recommendations[i] = pairs[RankOf(r.issues[i], pairs)][2]

\* The step of C16_Pairing.
PairingStep ==
  /\ seoScore' # seoScore =>
      /\ Paired(seoScore', SEOPairs, FailedSEO)
      /\ Len(seoScore'.issues) = 6 =>
           /\ seoScore'.recommendations
                = [i \in 1..5 |-> SEOPairs[i][2]]
           /\ SEOPairs[6][2] \notin Range(seoScore'.recommendations)
  /\ aeoScore' # aeoScore => Paired(aeoScore', AEOPairs, FailedAEO)
  /\ humanizationScore' # humanizationScore =>
      Paired(humanizationScore', HumanizationPairs, FailedHumanization)
  /\ serpScore' # serpScore =>
      Paired(serpScore', SERPPairs,
             IF serpReply'.kind = "ok" THEN FailedSERP + 1 ELSE 1)
  /\ differentiationScore' # differentiationScore =>
      Paired(differentiationScore', DifferentiationPairs,
             IF diffReply'.kind = "ok"
             THEN FailedDifferentiation(year') + 1 ELSE 1)

\* C16: in every analyzer result, issues lists the failed checks in the
\* order they are evaluated, none left out, and recommendations holds the
\* recommendations of the first 5 issues in the same order, so that
\* recommendations[i] belongs to issues[i]; when all six checks of
\* calculateSEOScore fail, the result has 6 issues and the first 5
\* recommendations, without the one for links.
C16_Pairing == [][PairingStep]_vars

\* All six checks of calculateSEOScore failed: the sixth issue is the one
\* for links and the fifth and last recommendation the one for length.
C16_Witness ==
  /\ seoScore # Undefined
  /\ Len(seoScore.issues) = 6
  /\ seoScore.issues[6] = "Few or no links detected"
  /\ Len(seoScore.recommendations) = 5
  /\ seoScore.recommendations[5] = "Expand content to at least 300 words"

\* The word count of calculateSERPScore: the pieces the runs of white space
\* cut the content into, one more than the runs.
WhitespaceWords ==
  1 + Cardinality({i \in DOMAIN content :
                     /\ content[i] \in SpaceChars
                     /\ i = 1 \/ content[i - 1] \notin SpaceChars})

\* How many entries of seq begin with p.
CountPrefixed(seq, p) ==
  Cardinality({i \in DOMAIN seq : HasPrefix(seq[i], p)})

\* The step of C17_SERPFormula.
SERPFormulaStep ==
  (serpScore' # serpScore /\ serpReply'.kind = "ok") =>
    LET m == SERPMeasure(content)
        local == Len(serpScore'.issues) - 1
    IN /\ serpScore'.score
            = 100 - (IF WhitespaceWords < 1000 THEN 20 ELSE 0)
                  - (IF m.hasNumbers THEN 0 ELSE 15)
                  - (IF m.hasCitations THEN 0 ELSE 10)
       /\ local = FailedSERP
       /\ Len(serpScore'.recommendations) = local + 1
       /\ CountPrefixed(serpScore'.issues, "AI analysis: ") = 1
       /\ serpScore'.issues[local + 1]
            = "AI analysis: " \o Substring100(serpReply'.analysis)
       /\ CountPrefixed(serpScore'.recommendations, SERPPairs[4][2]) = 1
       /\ serpScore'.recommendations[local + 1] = SERPPairs[4][2]

\* C17: when the external call succeeds, the score of calculateSERPScore
\* is 100 - 20 (fewer than 1000 words, counted as the pieces between runs
\* of white space) - 15 (no numeric statistic) - 10 (no citation
\* phrasing), and exactly one issue and one recommendation of the AI
\* commentary come after those of the failed checks.
C17_SERPFormula == [][SERPFormulaStep]_vars

\* The call succeeded on a content of 1000 words with a statistic and a
\* citation: no check failed and the one issue is the AI commentary.
C17_Witness ==
  /\ body.kind = "content"
  /\ content = DocWords1000
  /\ serpReply.kind = "ok"
  /\ serpScore.score = 100
  /\ Len(serpScore.issues) = 1
  /\ Len(serpScore.recommendations) = 1

\* C18: when the external call succeeds, predictedRank is "Page 1
\* potential" for a content of more than 1500 words (the pieces between
\* runs of white space) and "Page 2-3" for every other, those of exactly
\* 1500 words and of 1000 to 1500 words, which pay no word count penalty,
\* included; it is "Unknown" on the fallback path and only there.
C18_PredictedRank ==
  serpScore # Undefined =>
    /\ serpReply.kind = "ok" =>
         serpScore.predictedRank
           = IF WhitespaceWords > 1500 THEN "Page 1 potential" ELSE "Page 2-3"
    /\ serpReply.kind # "ok" <=> serpScore.predictedRank = "Unknown"

\* The call succeeded on a content of exactly 1500 words: no word count
\* issue, and the lower label.
C18_Witness ==
  /\ body.kind = "content"
  /\ content = DocWords1500
  /\ serpReply.kind = "ok"
  /\ serpScore.predictedRank = "Page 2-3"
  /\ CountPrefixed(serpScore.issues, "Word count: ") = 0

\* C19 as claimed: the word count of the empty content is 0 in every
\* analyzer that counts words: calculateSEOScore reports wordCount 0 and
\* the content-length issue of 0 words, and calculateSERPScore, when its
\* call succeeds, counts 0 words in its check and in its issue.
C19_EmptyWordCount ==
  (body.kind = "content" /\ content = <<>>) =>
    /\ seoScore # Undefined =>
         /\ seoScore.metrics.wordCount = 0
         /\ "Content too short: 0 words (Min: 300)" \in Range(seoScore.issues)
    /\ (serpScore # Undefined /\ serpReply.kind = "ok") =>
         /\ "Word count: 0 (Top rankings avg: 1500+)" \in Range(serpScore.issues)
         /\ serpScore.predictedRank = "Page 2-3"

\* C20: the floor max(0, score) never binds, the penalties of an analyzer
\* adding up to less than 100: the score of calculateSEOScore is at least
\* 20, of calculateAEOScore at least 40, of calculateHumanizationScore at
\* least 30, of calculateSERPScore on its success path at least 55 and of
\* calculateDifferentiationScore on its success path at least 40.
C20_FloorNeverBinds ==
  /\ seoScore # Undefined => seoScore.score >= 20
  /\ aeoScore # Undefined => aeoScore.score >= 40
  /\ humanizationScore # Undefined => humanizationScore.score >= 30
  /\ (serpScore # Undefined /\ serpReply.kind = "ok") => serpScore.score >= 55
  /\ (differentiationScore # Undefined /\ diffReply.kind = "ok") =>
       differentiationScore.score >= 40

\* Every check of the five analyzers failed on one content: each score is
\* at its least.
C20_Witness ==
  /\ pc = "done"
  /\ serpReply.kind = "ok"
  /\ diffReply.kind = "ok"
  /\ seoScore.score = 20
  /\ aeoScore.score = 40
  /\ humanizationScore.score = 30
  /\ serpScore.score = 55
  /\ differentiationScore.score = 40

\* C21: the score calculateSERPScore returns when its call fails, 50, is
\* strictly lower than every score it returns when the call succeeds,
\* whatever the content; the score calculateDifferentiationScore returns
\* when its call fails, 60, is not: a content that fails all four local
\* checks scores 40 when the call succeeds.
C21_FallbackOrder ==
  /\ serpScore # Undefined =>
       IF serpReply.kind = "ok" THEN serpScore.score > 50
       ELSE serpScore.score = 50
  /\ differentiationScore # Undefined =>
       /\ diffReply.kind # "ok" => differentiationScore.score = 60
       /\ (diffReply.kind = "ok" /\ Len(differentiationScore.issues) = 5) =>
            /\ differentiationScore.score = 40
            /\ differentiationScore.score < 60

\* The SERP call failed and the Differentiation call succeeded on a
\* content that fails every local check: 50 below the least SERP score of
\* a success, 40 below the Differentiation fallback.
C21_Witness ==
  /\ pc = "done"
  /\ content = DocWorst
  /\ serpReply.kind = "status"
  /\ serpScore.score = 50
  /\ diffReply.kind = "ok"
  /\ differentiationScore.score = 40

\* The penalty of each check of SERPPairs and of DifferentiationPairs, in
\* their order: the issue of the AI analysis and that of the fallback
\* carry none.
SERPPenalties == <<20, 15, 10, 0, 0>>
DifferentiationPenalties == <<20, 15, 15, 10, 0, 0>>

\* The penalties of the issues listed, by the table given.
ListedPenalties(issues, pairs, penalties) ==
  SumSeq([i \in DOMAIN issues |-> penalties[RankOf(issues[i], pairs)]],
         1, Len(issues))

\* The step of C22_CommentaryFree.
CommentaryFreeStep ==
  /\ (serpScore' # serpScore /\ serpReply'.kind = "ok") =>
      /\ Len(serpScore'.issues) = FailedSERP + 1
      /\ serpScore'.issues # <<>>
      /\ HasPrefix(serpScore'.issues[Len(serpScore'.issues)], "AI analysis: ")
      /\ serpScore'.score
           = 100 - ListedPenalties(serpScore'.issues, SERPPairs, SERPPenalties)
  /\ (differentiationScore' # differentiationScore /\ diffReply'.kind = "ok") =>
      /\ Len(differentiationScore'.issues) = FailedDifferentiation(year') + 1
      /\ differentiationScore'.issues # <<>>
      /\ HasPrefix(differentiationScore'.issues[Len(differentiationScore'.issues)],
                   "AI uniqueness check: ")
      /\ differentiationScore'.score
           = 100 - ListedPenalties(differentiationScore'.issues,
                                   DifferentiationPairs,
                                   DifferentiationPenalties)
      /\ FailedDifferentiation(year') = 4 =>
           /\ Len(differentiationScore'.recommendations) = 5
           /\ differentiationScore'.recommendations[5]
                = DifferentiationPairs[5][2]

\* C22: on the success path of calculateSERPScore and of
\* calculateDifferentiationScore the issue of the AI commentary carries no
\* penalty: issues has one entry more than local checks failed, the last
\* being the commentary, so it is never empty, not even at score 100, and
\* the score is 100 minus the penalties of the local issues alone; when all
\* four local checks of calculateDifferentiationScore fail, the fifth
\* recommendation is the one to review the AI analysis.
C22_CommentaryFree == [][CommentaryFreeStep]_vars

\* The Differentiation call succeeded on a content that passes all four
\* local checks: score 100, and the commentary the one issue.
C22_Witness ==
  /\ diffReply.kind = "ok"
  /\ differentiationScore.score = 100
  /\ Len(differentiationScore.issues) = 1
  /\ HasPrefix(differentiationScore.issues[1], "AI uniqueness check: ")
  /\ Len(differentiationScore.recommendations) = 1

\* The ways a call that returned a success status still gives no analysis:
\* its body cannot be parsed, or has no choices[0].message.content.
ReadFailures == {"unparsable", "shape"}

\* C23: an external call that returns a success status with a body that
\* cannot be parsed or lacks choices[0].message.content is handled like a
\* failed call: the analyzer returns its fixed fallback, and the handler
\* answers with one success response that carries all five scores, the
\* fallback among them, and with no error response.
C23_UnreadableReply ==
  /\ serpReply.kind \in ReadFailures =>
       serpScore =
         [score |-> 50,
          issues |-> <<"Unable to perform full SERP analysis">>,
          recommendations |->
            <<"Ensure content is comprehensive and well-researched">>,
          predictedRank |-> "Unknown"]
  /\ diffReply.kind \in ReadFailures =>
       differentiationScore =
         [score |-> 60,
          issues |-> <<"Unable to perform full uniqueness analysis">>,
          recommendations |->
            <<"Add unique examples, stories, and perspectives">>]
  /\ (pc = "done"
        /\ (serpReply.kind \in ReadFailures \/ diffReply.kind \in ReadFailures))
       => /\ Len(responses) = 1
          /\ responses[1].status = 200
          /\ ScoreFields \subseteq DOMAIN responses[1].body
          /\ "error" \notin DOMAIN responses[1].body
          /\ responses[1].body.serpScore = serpScore
          /\ responses[1].body.differentiationScore = differentiationScore

\* The body of the SERP reply could not be parsed and that of the
\* Differentiation reply had no content: the run ended with a success
\* response carrying both fallbacks.
C23_Witness ==
  /\ pc = "done"
  /\ content = DocStats
  /\ serpReply.kind = "unparsable"
  /\ diffReply.kind = "shape"
  /\ Len(responses) = 1
  /\ responses[1].status = 200
  /\ responses[1].body.serpScore.score = 50
  /\ responses[1].body.differentiationScore.score = 60

\* A response is a success response only when both AI-assisted analyzers
\* have returned and no call is in flight; its timestamp is of that step.
StampedLast ==
  \A k \in DOMAIN responses :
    "timestamp" \in DOMAIN responses[k].body =>
      /\ serpScore # Undefined
      /\ differentiationScore # Undefined
      /\ pending = {}
      /\ fetches = <<"serp", "diff">>
      /\ responses[k].body.timestamp = clock

\* C24: every request receives exactly one response in the end, provided
\* each external call issued resolves or rejects in the end: whatever the
\* outcomes of the calls, the handler does not get stuck and does not
\* respond twice, and the timestamp is stamped only after both AI-assisted
\* analyzers have finished.
C24_OneResponse ==
  /\ [](Runnable \/ pc = "done")
  /\ [](Len(responses) <= 1)
  /\ <>[](pc = "done" /\ Len(responses) = 1 /\ pending = {})
  /\ []StampedLast

\* A run that made both external calls has ended with its one response,
\* stamped at the last step.
C24_Witness ==
  /\ pc = "done"
  /\ fetches = <<"serp", "diff">>
  /\ pending = {}
  /\ Len(responses) = 1
  /\ responses[1].body.timestamp = clock

====
